---- MODULE Spec2Model ----
(***************************************************************************)
(* Session lifecycle (AuthProvider.tsx) and conversation-thread            *)
(* synchronisation (redirect-page.tsx, conversation/[threadId]/page.tsx)   *)
(* of the askbiggie front end, as state machines.                          *)
(*                                                                         *)
(* JavaScript null is the string NULL, and an undefined property is a      *)
(* field the record does not have.  A session is named by an identifier    *)
(* and SessionData gives its fields.  The clock is in milliseconds and     *)
(* expires_at in seconds, as in the code; message timestamps are instants  *)
(* 1, 2, ... in the order of their ISO strings.                            *)
(***************************************************************************)
EXTENDS Integers, Sequences, FiniteSets, TLC

NULL == "null"

-----------------------------------------------------------------------------
(* Bounds of the model *)

\* the clock advances at most MaxTime check periods
MaxTime == 1
\* asynchronous operations of the provider that may be pending at once:
\* refreshSession() invocations, timer callbacks and undelivered events
MaxPending == 2
\* submits accepted in one conversation view
MaxSends == 2
\* navigations issued through the router by the thread views
MaxNavs == 2
\* the last instant of the clock of the thread views
MaxClock == 4
\* records in a raw message list given to the normalization
MaxLen == 2
\* normalizations applied to one list
MaxPasses == 2

-----------------------------------------------------------------------------
(* Program constants *)

\* setInterval(..., 60000)
CheckPeriodMs == 60000

\* 5 * 60 * 1000
FiveMinutesMs == 5 * 60 * 1000

-----------------------------------------------------------------------------
(* Values *)

Sessions == {"s5", "s10", "sNoExp"}

\* a session the store holds from long before: one minute left
AgedSessions == {"s1"}

\* user and expires_at (seconds) of each session the store may hold
SessionData ==
    [s1     |-> [user |-> "u2", expires_at |-> 60],
     s5     |-> [user |-> "u1", expires_at |-> 300],
     s10    |-> [user |-> "u2", expires_at |-> 600],
     sNoExp |-> [user |-> "u1"]]

\* the sessions the store issues on a refresh or a sign-in while the model
\* runs; the others are sessions it may hold from before
IssuedSessions == {"s5", "s10"}

\* outcomes of supabase.auth.getSession(): a result without error, a result
\* with an error (and a null session), or an exception
GetSessionOutcomes == {"ok", "error", "throw"}

Min(S) == CHOOSE x \in S : \A y \in S : x <= y

VARIABLES
    session,      \* useState<Session | null>
    user,         \* useState<User | null>
    isLoading,    \* useState(true)
    stored,       \* the credential store's current session
    now,          \* wall clock, ms
    authEvents,   \* events emitted by the store, not yet delivered
    mounted,      \* the provider is mounted
    subs,         \* active onAuthStateChange subscriptions
    timers,       \* active sessionCheckInterval timers
    initReads,    \* getInitialSession calls awaiting getSession
    tickReads,    \* timer callbacks awaiting getSession
    calls,        \* refreshSession() invocations
    signOutDone,  \* the handler was given a SIGNED_OUT that ended a session
                  \* and the store has held no session since
    effectIsLoading,  \* isLoading as the last run of the effect saw it: what
                      \* its handler tests, and what its dependency compares
    signOuts,     \* signOut() calls awaiting supabase.auth.signOut()
    \* the thread views
    view,           \* the mounted view: "redirect", "conversation", "left"
    threadId,       \* the view's thread identifier
    serverProject,  \* project_id of the thread on the server
    threadQuery,    \* useThreadQuery(threadId)
    navs,           \* navigations issued through the router, oldest first
    messagesQuery,  \* useMessagesQuery(threadId)
    messages,       \* useState<UnifiedMessage[]>([])
    newMessage,     \* useState('')
    isSending,      \* useState(false)
    pageIsLoading,  \* ConversationPage's isLoading, useState(true)
    loadFetch,      \* the refetch of the mount effect is in flight
    send,           \* the handleSubmitMessage calls, by order of submit
    rendered,       \* isSending and newMessage as of the last render: what
                    \* the handlers and ChatInput of that render hold
    alerts,         \* alert() dialogs shown
    sends,          \* accepted submits
    clock,          \* the instant new Date() would give
    \* normalization on its own
    rawList,        \* a raw message list
    unified,        \* the list after the passes made so far
    passes          \* normalizations applied

authVars == <<session, user, isLoading, stored, now, authEvents, mounted,
              subs, timers, initReads, tickReads, calls, signOutDone,
              effectIsLoading, signOuts>>

threadVars == <<view, threadId, serverProject, threadQuery, navs,
                messagesQuery, messages, newMessage, isSending, pageIsLoading,
                loadFetch, send, rendered, alerts, sends, clock>>

normVars == <<rawList, unified, passes>>

vars == <<authVars, threadVars, normVars>>

-----------------------------------------------------------------------------
(* AuthProvider *)

\* newSession?.user ?? null
UserOf(s) == IF s = NULL THEN NULL ELSE SessionData[s].user

\* data.session of getSession(): the store's session, null beside an error
ReadSession(outcome) == IF outcome = "ok" THEN stored ELSE NULL

\* a refreshSession() invocation: where it is, the session its refresh
\* call returned, the fallback reads it has made, whether the handler
\* was given a SIGNED_OUT event that ended a session since it began, and
\* whether the result of an invocation that began after it has been applied.
\* The running invocations are kept in the order they began, in the slots
\* 1..n
IdleCall == [phase |-> "idle", result |-> NULL, reads |-> 0,
             signedOut |-> FALSE, overtaken |-> FALSE]

CallIds == 1..MaxPending

InFlight(c) == calls[c].phase # "idle"

Pending ==
    Len(authEvents) + tickReads + signOuts
    + Cardinality({c \in CallIds : InFlight(c)})

\* the slot of the next refreshSession() invocation
NextCall == Min({c \in CallIds : ~InFlight(c)})

\* setSession(s); setUser(s?.user ?? null): a no-op once unmounted
SetAuth(s) ==
    IF mounted
    THEN session' = s /\ user' = UserOf(s)
    ELSE UNCHANGED <<session, user>>

\* refreshSession, the else branch: setSession(data.session);
\* setUser(data.session?.user ?? null)
ApplyRefreshed(s) == SetAuth(s)

\* the error branch concluding Unauthenticated whatever the read gave
ApplyFallbackSignsOut(s) ==
    IF mounted
    THEN session' = NULL /\ user' = NULL
    ELSE UNCHANGED <<session, user>>

\* refreshSession, the error branch: setSession(currentSession);
\* setUser(currentSession?.user ?? null)
ApplyFallback(s) == SetAuth(s)

\* getInitialSession without its setUser
ApplyInitialSessionOnly(s) ==
    IF mounted
    THEN session' = s /\ UNCHANGED user
    ELSE UNCHANGED <<session, user>>

\* getInitialSession: setSession(currentSession);
\* setUser(currentSession?.user ?? null)
ApplyInitial(s) == SetAuth(s)

\* the handler without its setUser
ApplyEventKeepsUser(s) ==
    IF mounted
    THEN session' = s /\ UNCHANGED user
    ELSE UNCHANGED <<session, user>>

\* the handler: setSession(newSession); setUser(newSession?.user ?? null)
ApplyEvent(s) == SetAuth(s)

\* refreshSession up to its await of supabase.auth.refreshSession()
BeginRefresh(c) ==
    calls' = [calls EXCEPT ![c] = [IdleCall EXCEPT !.phase = "refreshing"]]

\* refreshSession returns: invocation c is over, the later ones move down a
\* slot; applied tells whether c's refreshed session was set, ahead of the
\* invocations that began before c and still run
EndRefresh(c, applied) ==
    calls' = [d \in CallIds |->
                 IF d < c
                 THEN [calls[d] EXCEPT !.overtaken = @ \/ applied]
                 ELSE IF d + 1 \in CallIds THEN calls[d + 1] ELSE IdleCall]

\* a consumer calls refreshSession(), of a mounted provider or through a
\* reference kept from before its unmount
ManualRefresh ==
    /\ Pending < MaxPending
    /\ BeginRefresh(NextCall)
    /\ UNCHANGED <<session, user, isLoading, stored, now, authEvents, mounted,
                   subs, timers, initReads, tickReads>>
    /\ UNCHANGED <<signOutDone, effectIsLoading, signOuts>>
    /\ UNCHANGED <<threadVars, normVars>>

\* the store completes a refresh: it holds the new session, and the result
\* is on its way to the caller
StoreRefreshes(c, s) ==
    /\ calls[c].phase = "refreshing"
    /\ stored # NULL
    /\ stored' = s
    /\ calls' = [calls EXCEPT ![c].phase = "settled", ![c].result = s]
    /\ UNCHANGED <<session, user, isLoading, now, authEvents, mounted,
                   subs, timers, initReads, tickReads>>
    /\ UNCHANGED <<signOutDone, effectIsLoading, signOuts>>
    /\ UNCHANGED <<threadVars, normVars>>

\* refreshSession after supabase.auth.refreshSession() returned a session
RefreshSucceeds(c) ==
    /\ calls[c].phase = "settled"
    /\ ApplyRefreshed(calls[c].result)
    /\ EndRefresh(c, mounted)
    /\ UNCHANGED <<isLoading, stored, now, authEvents, mounted,
                   subs, timers, initReads, tickReads>>
    /\ UNCHANGED <<signOutDone, effectIsLoading, signOuts>>
    /\ UNCHANGED <<threadVars, normVars>>

\* refreshSession after supabase.auth.refreshSession() returned an error:
\* up to the await of the fallback supabase.auth.getSession()
RefreshErrors(c) ==
    /\ calls[c].phase = "refreshing"
    /\ calls' = [calls EXCEPT ![c].phase = "fallback", ![c].reads = @ + 1]
    /\ UNCHANGED <<session, user, isLoading, stored, now, authEvents, mounted,
                   subs, timers, initReads, tickReads>>
    /\ UNCHANGED <<signOutDone, effectIsLoading, signOuts>>
    /\ UNCHANGED <<threadVars, normVars>>

\* the catch leaving a session without its user
RefreshThrowsClearsUser(c) ==
    /\ calls[c].phase = "refreshing"
    /\ EndRefresh(c, FALSE)
    /\ user' = NULL
    /\ UNCHANGED <<session, isLoading, stored, now, authEvents, mounted,
                   subs, timers, initReads, tickReads>>
    /\ UNCHANGED <<signOutDone, effectIsLoading, signOuts>>
    /\ UNCHANGED <<threadVars, normVars>>

\* supabase.auth.refreshSession() threw: the catch logs and returns
RefreshThrows(c) ==
    /\ calls[c].phase = "refreshing"
    /\ EndRefresh(c, FALSE)
    /\ UNCHANGED <<session, user, isLoading, stored, now, authEvents, mounted,
                   subs, timers, initReads, tickReads>>
    /\ UNCHANGED <<signOutDone, effectIsLoading, signOuts>>
    /\ UNCHANGED <<threadVars, normVars>>

\* refreshSession after the await of the fallback supabase.auth.getSession()
FallbackRead(c, o) ==
    /\ calls[c].phase = "fallback"
    /\ IF o = "throw"
       THEN UNCHANGED <<session, user>>
       ELSE ApplyFallback(ReadSession(o))
    /\ EndRefresh(c, FALSE)
    /\ UNCHANGED <<isLoading, stored, now, authEvents, mounted,
                   subs, timers, initReads, tickReads>>
    /\ UNCHANGED <<signOutDone, effectIsLoading, signOuts>>
    /\ UNCHANGED <<threadVars, normVars>>

\* the effect runs again without its cleanup
EffectRerunLeaks ==
    /\ subs' = subs + 1
    /\ timers' = timers + 1

\* the effect's cleanup (unsubscribe, clearInterval), then the effect again
\* (onAuthStateChange, setInterval)
EffectRerun ==
    /\ subs' = (subs - 1) + 1
    /\ timers' = (timers - 1) + 1

\* getInitialSession after its await of supabase.auth.getSession(), to its
\* setIsLoading(false)
InitialSessionRead(o) ==
    /\ initReads > 0
    /\ initReads' = initReads - 1
    /\ IF o = "throw"
       THEN UNCHANGED <<session, user>>
       ELSE ApplyInitial(ReadSession(o))
    /\ isLoading' = IF mounted THEN FALSE ELSE isLoading
    /\ UNCHANGED <<stored, now, authEvents, mounted, subs, timers, tickReads,
                   calls, signOutDone, effectIsLoading, signOuts>>
    /\ UNCHANGED <<threadVars, normVars>>

\* the provider has rendered with isLoading changed: the effect's cleanup,
\* then the effect again, which calls getInitialSession() up to its await
EffectReruns ==
    /\ mounted
    /\ effectIsLoading # isLoading
    /\ EffectRerun
    /\ initReads' = initReads + 1
    /\ effectIsLoading' = isLoading
    /\ UNCHANGED <<session, user, isLoading, stored, now, authEvents, mounted,
                   tickReads, calls, signOutDone, signOuts>>
    /\ UNCHANGED <<threadVars, normVars>>

\* the onAuthStateChange handler, on the oldest undelivered event (an event
\* emitted to no subscriber is lost); its isLoading is that of the effect
\* run that subscribed it
AuthStateChange ==
    /\ authEvents # <<>>
    /\ authEvents' = Tail(authEvents)
    /\ IF subs > 0
       THEN LET ev == Head(authEvents) IN
            /\ ApplyEvent(ev.session)
            /\ isLoading' = IF effectIsLoading THEN FALSE ELSE isLoading
            /\ signOutDone' = (signOutDone
                               \/ (/\ ev.event = "SIGNED_OUT"
                                   /\ stored = NULL
                                   /\ session # NULL))
            /\ calls' = [c \in CallIds |->
                           IF InFlight(c) /\ ev.event = "SIGNED_OUT"
                              /\ session # NULL
                           THEN [calls[c] EXCEPT !.signedOut = TRUE]
                           ELSE calls[c]]
       ELSE UNCHANGED <<session, user, isLoading, calls, signOutDone>>
    /\ UNCHANGED <<stored, now, mounted, tickReads, subs, timers, initReads,
                   effectIsLoading, signOuts>>
    /\ UNCHANGED <<threadVars, normVars>>

\* the expiry test with <= for <
ExpiringSoonOrNow(s) ==
    /\ s # NULL
    /\ "expires_at" \in DOMAIN SessionData[s]
    /\ SessionData[s].expires_at # 0
    /\ SessionData[s].expires_at * 1000 <= now + FiveMinutesMs

\* currentSession?.expires_at is truthy and expiresAt < fiveMinutesFromNow
ExpiringSoon(s) ==
    /\ s # NULL
    /\ "expires_at" \in DOMAIN SessionData[s]
    /\ SessionData[s].expires_at # 0
    /\ SessionData[s].expires_at * 1000 < now + FiveMinutesMs

\* the interval fires: the callback runs up to its await of getSession()
Tick ==
    /\ timers > 0
    /\ Pending < MaxPending
    /\ tickReads' = tickReads + 1
    /\ UNCHANGED <<session, user, isLoading, stored, now, authEvents, mounted,
                   subs, timers, initReads, calls>>
    /\ UNCHANGED <<signOutDone, effectIsLoading, signOuts>>
    /\ UNCHANGED <<threadVars, normVars>>

\* the timer callback after its await of getSession(): the expiry test and
\* the call of refreshSession()
TickRead(o) ==
    /\ tickReads > 0
    /\ tickReads' = tickReads - 1
    /\ IF o # "throw" /\ ExpiringSoon(ReadSession(o))
       THEN BeginRefresh(NextCall)
       ELSE UNCHANGED calls
    /\ UNCHANGED <<session, user, isLoading, stored, now, authEvents, mounted,
                   subs, timers, initReads>>
    /\ UNCHANGED <<signOutDone, effectIsLoading, signOuts>>
    /\ UNCHANGED <<threadVars, normVars>>

\* signOut() up to its await: the store drops its session and emits
\* SIGNED_OUT, to be delivered before or after the call returns
SignOut ==
    /\ Pending < MaxPending
    /\ stored' = NULL
    /\ authEvents' = Append(authEvents, [event |-> "SIGNED_OUT", session |-> NULL])
    /\ signOuts' = signOuts + 1
    /\ UNCHANGED <<session, user, isLoading, now, mounted, subs, timers,
                   initReads, tickReads, calls, signOutDone, effectIsLoading>>
    /\ UNCHANGED <<threadVars, normVars>>

\* supabase.auth.signOut() resolved: signOut() returns to its caller
SignOutReturns ==
    /\ signOuts > 0
    /\ signOuts' = signOuts - 1
    /\ UNCHANGED <<session, user, isLoading, stored, now, authEvents, mounted,
                   subs, timers, initReads, tickReads, calls, signOutDone,
                   effectIsLoading>>
    /\ UNCHANGED <<threadVars, normVars>>

\* the store signs a user in, or renews its token on its own, and emits
\* the event
StoreChanges(s) ==
    /\ Pending < MaxPending
    /\ stored' = s
    /\ authEvents' = Append(authEvents,
          [event |-> IF stored = NULL THEN "SIGNED_IN" ELSE "TOKEN_REFRESHED",
           session |-> s])
    /\ signOutDone' = FALSE
    /\ UNCHANGED <<session, user, isLoading, now, mounted, subs, timers,
                   initReads, tickReads, calls, effectIsLoading, signOuts>>
    /\ UNCHANGED <<threadVars, normVars>>

\* the effect's cleanup on unmount
Unmount ==
    /\ mounted
    /\ mounted' = FALSE
    /\ subs' = subs - 1
    /\ timers' = timers - 1
    /\ UNCHANGED <<session, user, isLoading, stored, now, authEvents,
                   initReads, tickReads, calls>>
    /\ UNCHANGED <<signOutDone, effectIsLoading, signOuts>>
    /\ UNCHANGED <<threadVars, normVars>>

\* time passes
AdvanceTime ==
    /\ now < MaxTime * CheckPeriodMs
    /\ now' = now + CheckPeriodMs
    /\ UNCHANGED <<session, user, isLoading, stored, authEvents, mounted,
                   subs, timers, initReads, tickReads, calls>>
    /\ UNCHANGED <<signOutDone, effectIsLoading, signOuts>>
    /\ UNCHANGED <<threadVars, normVars>>

-----------------------------------------------------------------------------
(* Message normalization (ConversationPage, the effect on messagesQuery.data) *)

Has(msg, f) == f \in DOMAIN msg

\* a value that || replaces by its right-hand side: null, '', 0, false
\* (compared as text, the values being of different kinds)
Falsy(v) ==
    ToString(v) \in {ToString(NULL), ToString(""), ToString(0), ToString(FALSE)}

\* a property that || keeps: present and not falsy
Truthy(msg, f) == Has(msg, f) /\ ~Falsy(msg[f])

\* .filter((msg) => msg.type !== 'status')
NotStatus(msg) == ~(Has(msg, "type") /\ msg.type = "status")

\* .map stamping every record with the current instant
UnifiedStampsNow(msg, tid, t) ==
    [message_id     |-> IF Truthy(msg, "message_id") THEN msg.message_id ELSE NULL,
     thread_id      |-> IF Truthy(msg, "thread_id") THEN msg.thread_id ELSE tid,
     type           |-> IF Truthy(msg, "type") THEN msg.type ELSE "system",
     is_llm_message |-> Truthy(msg, "is_llm_message"),
     content        |-> IF Truthy(msg, "content") THEN msg.content ELSE "",
     metadata       |-> IF Truthy(msg, "metadata") THEN msg.metadata ELSE "{}",
     created_at     |-> t,
     updated_at     |-> t]

\* .map copying the properties without their defaults
UnifiedNoDefaults(msg, tid, t) ==
    [message_id     |-> IF Has(msg, "message_id") THEN msg.message_id ELSE "",
     thread_id      |-> IF Truthy(msg, "thread_id") THEN msg.thread_id ELSE tid,
     type           |-> IF Truthy(msg, "type") THEN msg.type ELSE "system",
     is_llm_message |-> Truthy(msg, "is_llm_message"),
     content        |-> IF Has(msg, "content") THEN msg.content ELSE NULL,
     metadata       |-> IF Has(msg, "metadata") THEN msg.metadata ELSE NULL,
     created_at     |-> IF Has(msg, "created_at") THEN msg.created_at ELSE 0,
     updated_at     |-> IF Has(msg, "updated_at") THEN msg.updated_at ELSE 0]

\* the object .map builds for one raw record, at instant t in thread tid
Unified(msg, tid, t) ==
    [message_id     |-> IF Truthy(msg, "message_id") THEN msg.message_id ELSE NULL,
     thread_id      |-> IF Truthy(msg, "thread_id") THEN msg.thread_id ELSE tid,
     type           |-> IF Truthy(msg, "type") THEN msg.type ELSE "system",
     is_llm_message |-> Truthy(msg, "is_llm_message"),
     content        |-> IF Truthy(msg, "content") THEN msg.content ELSE "",
     metadata       |-> IF Truthy(msg, "metadata") THEN msg.metadata ELSE "{}",
     created_at     |-> IF Truthy(msg, "created_at") THEN msg.created_at ELSE t,
     updated_at     |-> IF Truthy(msg, "updated_at") THEN msg.updated_at ELSE t]

\* unifiedMessages
Normalize(raw, tid, t) ==
    LET kept == SelectSeq(raw, NotStatus)
    IN  [i \in 1..Len(kept) |-> Unified(kept[i], tid, t)]

\* raw records: every property present, or only some of them; a timestamp 0
\* is one that || replaces, as it does a timestamp that is null or ''
FullRecords ==
    [message_id : {"m1"}, thread_id : {"B"}, type : {"status", "user", ""},
     is_llm_message : {TRUE}, content : {"", "hi"}, metadata : {"{}"},
     created_at : {1, 0}, updated_at : {2, 0}]

Presences ==
    { {"message_id", "thread_id", "type", "is_llm_message", "content",
       "metadata", "created_at", "updated_at"},
      {"type", "content", "created_at"},
      {"type"},
      {} }

RawRecords == { [f \in D |-> r[f]] : r \in FullRecords, D \in Presences }

RECURSIVE ListsUpTo(_)
ListsUpTo(n) ==
    IF n = 0 THEN { <<>> }
    ELSE LET shorter == ListsUpTo(n - 1)
         IN  shorter \cup { Append(l, r) : l \in shorter, r \in RawRecords }

RawLists == ListsUpTo(MaxLen)

\* one pass over the raw list
NormalizeRaw ==
    /\ passes = 0
    /\ unified' = Normalize(rawList, threadId, clock)
    /\ passes' = 1
    /\ UNCHANGED <<rawList, authVars, threadVars>>

\* a further pass, over the list the last pass gave
NormalizeAgain ==
    /\ passes >= 1
    /\ passes < MaxPasses
    /\ unified' = Normalize(unified, threadId, clock)
    /\ passes' = passes + 1
    /\ UNCHANGED <<rawList, authVars, threadVars>>

-----------------------------------------------------------------------------
(* RedirectPage and ConversationPage *)

ThreadIds == {"A", "B"}

\* what getMessages may return for thread tid
HistoriesOf(tid) ==
    { <<>>,
      << [type |-> "status"],
         [type |-> "user", content |-> "hi", created_at |-> 1],
         [type |-> "assistant", content |-> "hello", created_at |-> 2] >>,
      << [message_id |-> "m2", thread_id |-> tid, type |-> "assistant",
          is_llm_message |-> TRUE, content |-> "hello", metadata |-> "{}",
          created_at |-> 2, updated_at |-> 2],
         [message_id |-> "m1", thread_id |-> tid, type |-> "user",
          is_llm_message |-> FALSE, content |-> "hi", metadata |-> "{}",
          created_at |-> 1, updated_at |-> 1] >>,
      << [content |-> "hi"] >> }

ServerHistories == UNION { HistoriesOf(tid) : tid \in ThreadIds }

\* what the user may have typed
Texts == { <<>>, <<"\t", " ">>, <<"h", "i">>, <<" ", "h">> }

\* the characters String.prototype.trim removes (WhiteSpace and
\* LineTerminator), as far as a string of the model can hold them: space,
\* tab, line feed, carriage return, form feed, and, written as the
\* characters themselves, U+000B (vertical tab), U+00A0 (no-break space),
\* U+1680 (ogham space mark) and U+FEFF (zero width no-break space).
\* The others (U+2000..U+200A, U+2028, U+2029, U+202F, U+205F, U+3000)
\* cannot stand in a string of the model, so no text of the model holds
\* them; the second text of Texts is a tab followed by U+00A0.
WhiteSpace == {" ", "\t", "\n", "\r", "\f", "", " ", " ", "﻿"}

\* message.trim()
RECURSIVE TrimStart(_)
TrimStart(s) ==
    IF s # <<>> /\ Head(s) \in WhiteSpace THEN TrimStart(Tail(s)) ELSE s

RECURSIVE TrimEnd(_)
TrimEnd(s) ==
    IF s # <<>> /\ s[Len(s)] \in WhiteSpace
    THEN TrimEnd(SubSeq(s, 1, Len(s) - 1))
    ELSE s

Trim(s) == TrimEnd(TrimStart(s))

NoQuery == [status |-> "pending", project_id |-> NULL]

NoMessages == [hasData |-> FALSE, data |-> <<>>]

\* a handleSubmitMessage call: where it is and its message argument
NoSend == [phase |-> "idle", prompt |-> <<>>]

SendIds == 1..MaxSends

\* what a render captures for its handlers and for ChatInput
Rendering == [isSending |-> isSending, newMessage |-> newMessage]

\* threadQuery.data?.project_id is truthy
HasProject == threadQuery.status = "success" /\ threadQuery.project_id # NULL

\* router.replace(...)
Replace(page, project) ==
    navs' = Append(navs, [by |-> view, kind |-> "replace", page |-> page,
                          project |-> project, thread |-> threadId])

\* the render without its guard on project_id
DisplayIgnoresProject ==
    IF pageIsLoading \/ threadQuery.status # "success" THEN "skeleton"
    ELSE "list"

\* the render guarded by isLoading alone
DisplayIgnoresLookup ==
    IF pageIsLoading THEN "skeleton" ELSE "list"

\* what ConversationPage returns: the skeleton or the message list
Display ==
    IF pageIsLoading \/ threadQuery.status # "success" THEN "skeleton"
    ELSE IF threadQuery.project_id # NULL THEN "skeleton"
    ELSE "list"

\* RedirectPage: the effect on threadQuery.data, which runs when the data
\* has changed
RedirectEffect(q) ==
    IF q.status = "success"
    THEN IF q.project_id # NULL
         THEN Replace("project", q.project_id)
         ELSE Replace("conversation", NULL)
    ELSE UNCHANGED navs

\* RedirectPage: the body of a render, if (threadQuery.isError)
RedirectRender(q) ==
    IF q.status = "error"
    THEN Replace("dashboard", NULL)
    ELSE UNCHANGED navs

\* ConversationPage: the effect on threadQuery.data
ConversationEffect(q) ==
    IF q.status = "success" /\ q.project_id # NULL
    THEN Replace("project", q.project_id)
    ELSE UNCHANGED navs

\* the thread lookup settles, the view renders and its effect runs
ThreadQuerySettles(ok) ==
    /\ view \in {"redirect", "conversation"}
    /\ threadQuery.status = "pending"
    /\ threadQuery' = IF ok
                      THEN [status |-> "success", project_id |-> serverProject]
                      ELSE [status |-> "error", project_id |-> NULL]
    /\ IF view = "redirect"
       THEN IF ok
            THEN RedirectEffect(threadQuery')
            ELSE RedirectRender(threadQuery')
       ELSE ConversationEffect(threadQuery')
    /\ rendered' = Rendering
    /\ UNCHANGED <<view, threadId, serverProject, messagesQuery, messages,
                   newMessage, isSending, pageIsLoading, loadFetch, send,
                   alerts, sends, clock>>
    /\ UNCHANGED <<authVars, normVars>>

\* RedirectPage renders again while the lookup is in error (its parent
\* renders, the query's state changes): the render body runs again, the
\* effect does not (its data has not changed)
RedirectRendersAgain ==
    /\ view = "redirect"
    /\ threadQuery.status = "error"
    /\ Len(navs) < MaxNavs
    /\ RedirectRender(threadQuery)
    /\ UNCHANGED <<view, threadId, serverProject, threadQuery, messagesQuery,
                   messages, newMessage, isSending, pageIsLoading, loadFetch,
                   send, rendered, alerts, sends, clock>>
    /\ UNCHANGED <<authVars, normVars>>

\* the "Back to Dashboard" button of the rendered list:
\* router.push('/dashboard')
ClickBack ==
    /\ view = "conversation"
    /\ Display = "list"
    /\ Len(navs) < MaxNavs
    /\ navs' = Append(navs, [by |-> view, kind |-> "push", page |-> "dashboard",
                             project |-> NULL, thread |-> threadId])
    /\ UNCHANGED <<view, threadId, serverProject, threadQuery, messagesQuery,
                   messages, newMessage, isSending, pageIsLoading, loadFetch,
                   send, rendered, alerts, sends, clock>>
    /\ UNCHANGED <<authVars, normVars>>

\* the router completes the navigation issued last: /conversation/<id>
\* mounts ConversationPage (its first render and effects: the lookup is in
\* the query cache, the refetch of the messages is started), any other
\* target leaves the thread views
NavigationCompletes ==
    /\ view \in {"redirect", "conversation"}
    /\ navs # <<>>
    /\ IF navs[Len(navs)].page = "conversation" /\ view = "redirect"
       THEN /\ view' = "conversation"
            /\ loadFetch' = TRUE
       ELSE /\ view' = "left"
            /\ UNCHANGED loadFetch
    /\ UNCHANGED <<threadId, serverProject, threadQuery, navs, messagesQuery,
                   messages, newMessage, isSending, pageIsLoading, send,
                   alerts, sends, clock>>
    /\ UNCHANGED rendered
    /\ UNCHANGED <<authVars, normVars>>

\* the effect adding the result to the list it has
ApplyDataAppends(raw) ==
    /\ messagesQuery' = [hasData |-> TRUE, data |-> raw]
    /\ messages' = messages \o Normalize(raw, threadId, clock)
    /\ pageIsLoading' = FALSE

\* the effect on messagesQuery.data: setMessages(unifiedMessages);
\* setIsLoading(false)
ApplyData(raw) ==
    /\ messagesQuery' = [hasData |-> TRUE, data |-> raw]
    /\ messages' = Normalize(raw, threadId, clock)
    /\ pageIsLoading' = FALSE

\* the refetch of the mount effect resolves with the thread's history
LoadFetchSucceeds(raw) ==
    /\ view = "conversation"
    /\ loadFetch
    /\ loadFetch' = FALSE
    /\ ApplyData(raw)
    /\ rendered' = Rendering
    /\ UNCHANGED <<view, threadId, serverProject, threadQuery, navs,
                   newMessage, isSending, send, alerts, sends, clock>>
    /\ UNCHANGED <<authVars, normVars>>

\* the refetch of the mount effect fails: the query keeps its data
LoadFetchFails ==
    /\ view = "conversation"
    /\ loadFetch
    /\ loadFetch' = FALSE
    /\ UNCHANGED <<view, threadId, serverProject, threadQuery, navs,
                   messagesQuery, messages, newMessage, isSending,
                   pageIsLoading, send, alerts, sends, clock>>
    /\ UNCHANGED rendered
    /\ UNCHANGED <<authVars, normVars>>

\* ChatInput onChange={setNewMessage}, in a view that has rendered its
\* state; the input is disabled while sending
TypeText(text) ==
    /\ view = "conversation"
    /\ Display = "list"
    /\ rendered = Rendering
    /\ ~rendered.isSending
    /\ newMessage # text
    /\ newMessage' = text
    /\ rendered' = [rendered EXCEPT !.newMessage = text]
    /\ UNCHANGED <<view, threadId, serverProject, threadQuery, navs,
                   messagesQuery, messages, isSending, pageIsLoading,
                   loadFetch, send, alerts, sends, clock>>
    /\ UNCHANGED <<authVars, normVars>>

\* the submit adding the typed text to the list ahead of the server
SubmitMessageOptimistic ==
    /\ view = "conversation"
    /\ Display = "list"
    /\ sends < MaxSends
    /\ ~(Trim(rendered.newMessage) = <<>> \/ rendered.isSending)
    /\ isSending' = TRUE
    /\ newMessage' = <<>>
    /\ messages' = Append(messages,
                          Unified([type |-> "user", content |-> "hi"],
                                  threadId, clock))
    /\ send' = [send EXCEPT ![sends + 1] =
                   [phase |-> "dispatching", prompt |-> rendered.newMessage]]
    /\ sends' = sends + 1
    /\ UNCHANGED <<view, threadId, serverProject, threadQuery, navs,
                   messagesQuery, pageIsLoading, loadFetch,
                   rendered, alerts, clock>>
    /\ UNCHANGED <<authVars, normVars>>

\* ChatInput calls onSubmit: handleSubmitMessage(message) of the last render,
\* with that render's isSending, up to its await of initiateAgent
SubmitMessage ==
    /\ view = "conversation"
    /\ Display = "list"
    /\ sends < MaxSends
    /\ ~(Trim(rendered.newMessage) = <<>> \/ rendered.isSending)
    /\ isSending' = TRUE
    /\ newMessage' = <<>>
    /\ send' = [send EXCEPT ![sends + 1] =
                   [phase |-> "dispatching", prompt |-> rendered.newMessage]]
    /\ sends' = sends + 1
    /\ UNCHANGED <<view, threadId, serverProject, threadQuery, navs,
                   messagesQuery, messages, pageIsLoading, loadFetch,
                   rendered, alerts, clock>>
    /\ UNCHANGED <<authVars, normVars>>

\* the view renders with the state as it is
Render ==
    /\ view = "conversation"
    /\ rendered # Rendering
    /\ rendered' = Rendering
    /\ UNCHANGED <<view, threadId, serverProject, threadQuery, navs,
                   messagesQuery, messages, newMessage, isSending,
                   pageIsLoading, loadFetch, send, alerts, sends, clock>>
    /\ UNCHANGED <<authVars, normVars>>

\* a handleSubmitMessage call outlives its view: once the view has been left
\* (view # "conversation") the call still runs to its end, and React drops
\* the state updates it makes, so the state the view had stays as it was

\* initiateAgent resolved: up to the await of messagesQuery.refetch()
SendResolves(i) ==
    /\ send[i].phase = "dispatching"
    /\ send' = [send EXCEPT ![i].phase = "refetching"]
    /\ UNCHANGED <<view, threadId, serverProject, threadQuery, navs,
                   messagesQuery, messages, newMessage, isSending,
                   pageIsLoading, loadFetch, rendered, alerts, sends, clock>>
    /\ UNCHANGED <<authVars, normVars>>

\* the failure path without the finally
SendFailsStaysSending(i) ==
    /\ send[i].phase = "dispatching"
    /\ alerts' = alerts + 1
    /\ send' = [send EXCEPT ![i] = NoSend]
    /\ UNCHANGED <<view, threadId, serverProject, threadQuery, navs,
                   messagesQuery, messages, newMessage, isSending,
                   pageIsLoading, loadFetch, rendered, sends, clock>>
    /\ UNCHANGED <<authVars, normVars>>

\* initiateAgent threw: the catch alerts, the finally calls
\* setIsSending(false), which has no effect once the view has been left
SendFails(i) ==
    /\ send[i].phase = "dispatching"
    /\ alerts' = alerts + 1
    /\ isSending' = IF view = "conversation" THEN FALSE ELSE isSending
    /\ send' = [send EXCEPT ![i] = NoSend]
    /\ UNCHANGED <<view, threadId, serverProject, threadQuery, navs,
                   messagesQuery, messages, newMessage, pageIsLoading,
                   loadFetch, rendered, sends, clock>>
    /\ UNCHANGED <<authVars, normVars>>

\* the refetch after the send resolved with the history, and the query
\* hands it to the component: the view renders and the data effect runs.
\* The call that awaits the refetch resumes in a task of its own
\* (SendRefetchReturns); which of the two comes first is decided by the
\* query library, so the model takes them in either order: "applied" is a
\* call whose result the component has and that has not resumed, "resumed"
\* a call that is over and whose result the component has not yet. A view
\* that has been left neither renders nor runs the effect
SendRefetchSucceeds(i, raw) ==
    /\ send[i].phase \in {"refetching", "resumed"}
    /\ IF view = "conversation"
       THEN /\ ApplyData(raw)
            /\ rendered' = Rendering
       ELSE UNCHANGED <<messagesQuery, messages, pageIsLoading, rendered>>
    /\ send' = [send EXCEPT ![i] = IF send[i].phase = "refetching"
                                   THEN [send[i] EXCEPT !.phase = "applied"]
                                   ELSE NoSend]
    /\ UNCHANGED <<view, threadId, serverProject, threadQuery, navs,
                   newMessage, isSending, loadFetch, alerts, sends, clock>>
    /\ UNCHANGED <<authVars, normVars>>

\* the call resumes after await messagesQuery.refetch(), which resolved
\* with the history: scrollToBottom(), then the finally lowers isSending;
\* the view has not rendered since
SendRefetchReturns(i) ==
    /\ send[i].phase \in {"refetching", "applied"}
    /\ isSending' = IF view = "conversation" THEN FALSE ELSE isSending
    /\ send' = [send EXCEPT ![i] = IF send[i].phase = "refetching"
                                   THEN [NoSend EXCEPT !.phase = "resumed"]
                                   ELSE NoSend]
    /\ UNCHANGED <<view, threadId, serverProject, threadQuery, navs,
                   messagesQuery, messages, newMessage, pageIsLoading,
                   loadFetch, rendered, alerts, sends, clock>>
    /\ UNCHANGED <<authVars, normVars>>

\* the refetch after the send resolved with an error result
SendRefetchFails(i) ==
    /\ send[i].phase = "refetching"
    /\ isSending' = IF view = "conversation" THEN FALSE ELSE isSending
    /\ send' = [send EXCEPT ![i] = NoSend]
    /\ UNCHANGED <<view, threadId, serverProject, threadQuery, navs,
                   messagesQuery, messages, newMessage, pageIsLoading,
                   loadFetch, rendered, alerts, sends, clock>>
    /\ UNCHANGED <<authVars, normVars>>

\* the route's threadId changes under the mounted ConversationPage, which
\* has issued no navigation: the queries are those of the new thread, with
\* nothing loaded, the effect on [threadId] refetches its messages, and the
\* useState values stay
ChangeThread(tid, project) ==
    /\ view = "conversation"
    /\ tid # threadId
    /\ ~\E n \in 1..Len(navs) : navs[n].by = "conversation"
    /\ threadId' = tid
    /\ serverProject' = project
    /\ threadQuery' = NoQuery
    /\ messagesQuery' = NoMessages
    /\ loadFetch' = TRUE
    /\ rendered' = Rendering
    /\ UNCHANGED <<view, navs, messages, newMessage, isSending,
                   pageIsLoading, send, alerts, sends, clock>>
    /\ UNCHANGED <<authVars, normVars>>

\* time passes
ClockTick ==
    /\ clock < MaxClock
    /\ clock' = clock + 1
    /\ UNCHANGED <<view, threadId, serverProject, threadQuery, navs,
                   messagesQuery, messages, newMessage, isSending,
                   pageIsLoading, loadFetch, send, alerts, sends>>
    /\ UNCHANGED rendered
    /\ UNCHANGED <<authVars, normVars>>

-----------------------------------------------------------------------------
(* Specifications *)

\* the provider after its first render and the first run of its effect,
\* over a store that holds one of the sessions of held, or none
InitAuthOver(held) ==
    /\ session = NULL
    /\ user = NULL
    /\ isLoading = TRUE
    /\ stored \in held \cup {NULL}
    /\ now = 0
    /\ authEvents = <<>>
    /\ mounted = TRUE
    /\ subs = 1
    /\ timers = 1
    /\ initReads = 1
    /\ tickReads = 0
    /\ calls = [c \in CallIds |-> IdleCall]
    /\ signOutDone = FALSE
    /\ effectIsLoading = TRUE
    /\ signOuts = 0

\* a thread view after its first render and effects: the lookup is pending
\* and, in ConversationPage, the refetch of the messages is in flight
InitThread ==
    /\ view \in {"redirect", "conversation"}
    /\ threadId \in ThreadIds
    /\ serverProject \in {NULL, "p1"}
    /\ threadQuery = NoQuery
    /\ navs = <<>>
    /\ messagesQuery = NoMessages
    /\ messages = <<>>
    /\ newMessage = <<>>
    /\ isSending = FALSE
    /\ pageIsLoading = TRUE
    /\ loadFetch = (view = "conversation")
    /\ send = [i \in SendIds |-> NoSend]
    /\ rendered = [isSending |-> FALSE, newMessage |-> <<>>]
    /\ alerts = 0
    /\ sends = 0
    /\ clock = 3

InitAuth == InitAuthOver(Sessions)

\* the session manager alone
Next ==
    \/ ManualRefresh
    \/ \E c \in CallIds, s \in IssuedSessions : StoreRefreshes(c, s)
    \/ \E c \in CallIds : RefreshSucceeds(c)
    \/ \E c \in CallIds : RefreshErrors(c)
    \/ \E c \in CallIds : RefreshThrows(c)
    \/ \E c \in CallIds, o \in GetSessionOutcomes : FallbackRead(c, o)
    \/ \E o \in GetSessionOutcomes : InitialSessionRead(o)
    \/ EffectReruns
    \/ AuthStateChange
    \/ Tick
    \/ \E o \in GetSessionOutcomes : TickRead(o)
    \/ SignOut
    \/ SignOutReturns
    \/ \E s \in IssuedSessions : StoreChanges(s)
    \/ Unmount
    \/ AdvanceTime

\* a thread view alone, under a provider that has loaded
NextViews ==
    \/ \E ok \in BOOLEAN : ThreadQuerySettles(ok)
    \/ RedirectRendersAgain
    \/ ClickBack
    \/ NavigationCompletes
    \/ \E raw \in HistoriesOf(threadId) : LoadFetchSucceeds(raw)
    \/ LoadFetchFails
    \/ \E text \in Texts : TypeText(text)
    \/ SubmitMessage
    \/ \E i \in SendIds : SendResolves(i)
    \/ \E i \in SendIds : SendFails(i)
    \/ \E i \in SendIds, raw \in HistoriesOf(threadId) :
          SendRefetchSucceeds(i, raw)
    \/ \E i \in SendIds : SendRefetchReturns(i)
    \/ \E i \in SendIds : SendRefetchFails(i)
    \/ Render
    \/ ClockTick

\* no thread view is mounted
ViewsAtRest ==
    /\ view = "left" /\ threadId = "A" /\ serverProject = NULL
    /\ threadQuery = NoQuery /\ navs = <<>> /\ messagesQuery = NoMessages
    /\ messages = <<>> /\ newMessage = <<>> /\ isSending = FALSE
    /\ pageIsLoading = TRUE /\ loadFetch = FALSE
    /\ send = [i \in SendIds |-> NoSend]
    /\ rendered = [isSending |-> FALSE, newMessage |-> <<>>]
    /\ alerts = 0 /\ sends = 0 /\ clock = 3

\* a provider that has loaded, signed out, with nothing pending
AuthAtRest ==
    /\ session = NULL /\ user = NULL /\ isLoading = FALSE
    /\ stored = NULL /\ now = 0 /\ authEvents = <<>> /\ mounted = TRUE
    /\ subs = 1 /\ timers = 1 /\ initReads = 0 /\ tickReads = 0
    /\ calls = [c \in CallIds |-> IdleCall]
    /\ signOutDone = FALSE
    /\ effectIsLoading = FALSE
    /\ signOuts = 0

NormAtRest == rawList = <<>> /\ unified = <<>> /\ passes = 0

Init == InitAuth /\ ViewsAtRest /\ NormAtRest

Spec == Init /\ [][Next]_vars

\* the session manager over a store that may also hold an aged session
InitExpiry == InitAuthOver(Sessions \cup AgedSessions) /\ ViewsAtRest /\ NormAtRest

SpecExpiry == InitExpiry /\ [][Next]_vars

InitViews == InitThread /\ AuthAtRest /\ NormAtRest

SpecViews == InitViews /\ [][NextViews]_vars

\* the thread views when the route's threadId may change under a mounted
\* conversation view
NextThreads ==
    \/ NextViews
    \/ \E tid \in ThreadIds, p \in {NULL, "p1"} : ChangeThread(tid, p)

SpecThreads == InitViews /\ [][NextThreads]_vars

\* the normalization alone: every raw list, normalized and normalized again
\* as time passes
InitNormalize ==
    /\ rawList \in RawLists
    /\ unified = <<>>
    /\ passes = 0
    /\ AuthAtRest
    /\ ViewsAtRest

NextNormalize ==
    \/ NormalizeRaw
    \/ NormalizeAgain
    \/ ClockTick

SpecNormalize == InitNormalize /\ [][NextNormalize]_vars

-----------------------------------------------------------------------------
(* Claims about the session manager, under Spec *)

\* C1: a refreshSession() call that completes after a SIGNED_OUT event has
\* set the session to null since it began is dropped: it does not make the
\* null session non-null again.
C1_StaleRefreshDropped ==
    [][\A c \in CallIds :
          (/\ InFlight(c)
           /\ calls[c].signedOut
           /\ \/ RefreshSucceeds(c)
              \/ RefreshThrows(c)
              \/ \E o \in GetSessionOutcomes : FallbackRead(c, o)
           /\ session = NULL)
          => session' = NULL]_vars

\* C2: when the handler is given a SIGNED_OUT event (its session is null),
\* the state it leaves is session = null and user = null, whatever the state
\* was.
C2_SignOutClearsState ==
    [][(/\ authEvents # <<>>
        /\ Head(authEvents).event = "SIGNED_OUT"
        /\ authEvents' = Tail(authEvents)
        /\ subs > 0)
       => (session' = NULL /\ user' = NULL)]_vars

\* a signed-in provider about to be given the SIGNED_OUT event of a signOut()
C2_Witness ==
    /\ authEvents # <<>>
    /\ Head(authEvents).event = "SIGNED_OUT"
    /\ subs > 0
    /\ session # NULL
    /\ user # NULL
    /\ stored = NULL

\* the session has an expiry instant less than five minutes after now
C3_ExpiresWithinFiveMinutes(s) ==
    /\ s # NULL
    /\ "expires_at" \in DOMAIN SessionData[s]
    /\ SessionData[s].expires_at - (now \div 1000) < 5 * 60

\* C3: a timer callback whose read gives the store's session calls
\* refreshSession() if and only if that session expires less than five
\* minutes after now.
C3_RefreshIffExpiring ==
    [][TickRead("ok")
       => ((\E c \in CallIds : ~InFlight(c) /\ calls'[c].phase = "refreshing")
           <=> C3_ExpiresWithinFiveMinutes(stored))]_vars

\* a timer callback awaiting its read while the store's session has four
\* minutes left
C3_Witness ==
    /\ tickReads > 0
    /\ stored = "s5"
    /\ now = CheckPeriodMs

\* C10: a refresh call that returns an error is followed by exactly one
\* fallback read of the stored session, and the state becomes what that read
\* gives: the stored session and its user, or null and null; a refresh call
\* that returns a session replaces session and user by it, and no fallback
\* read is made.
C10_RefreshOutcome ==
    [][\A c \in CallIds :
          /\ RefreshErrors(c)
                => (/\ calls[c].reads = 0
                    /\ calls'[c].reads = 1
                    /\ calls'[c].phase = "fallback")
          /\ (mounted /\ FallbackRead(c, "ok"))
                => (/\ calls[c].reads = 1
                    /\ session' = stored
                    /\ user' = (IF stored = NULL THEN NULL
                                ELSE SessionData[stored].user))
          /\ (mounted /\ FallbackRead(c, "error"))
                => (/\ calls[c].reads = 1
                    /\ session' = NULL
                    /\ user' = NULL)
          /\ (mounted /\ RefreshSucceeds(c))
                => (/\ calls[c].reads = 0
                    /\ session' = calls[c].result
                    /\ user' = SessionData[calls[c].result].user)]_vars

\* a fallback read is pending while the store holds a session that is not
\* the one holders see
C10_Witness ==
    \E c \in CallIds :
        /\ calls[c].phase = "fallback"
        /\ mounted
        /\ stored # NULL
        /\ session # NULL
        /\ session # stored

\* C11: when the first getInitialSession() fails (its getSession() returns
\* an error or throws) before the handler was given any event, the provider
\* is left not loading and Unauthenticated: session = null, user = null.
\* isLoading is still true exactly while neither the first acquisition nor
\* an event has been handled.
C11_FailedAcquisitionUnauthenticated ==
    [][\A o \in {"error", "throw"} :
          (mounted /\ isLoading /\ InitialSessionRead(o))
          => (isLoading' = FALSE /\ session' = NULL /\ user' = NULL)]_vars

\* C13: once signOut() is over (it has returned, the handler was given its
\* SIGNED_OUT, the session it ended is gone and the store holds none), the
\* recurring timer starts no further session check.
C13_NoCheckAfterSignOut ==
    [][(signOutDone /\ signOuts = 0 /\ mounted)
        => tickReads' <= tickReads]_vars

\* C14: the session the provider exposes has not expired:
\* session.expires_at is later than now.
C14_ExposedSessionNotExpired ==
    (mounted /\ session # NULL /\ "expires_at" \in DOMAIN SessionData[session])
    => SessionData[session].expires_at * 1000 > now

\* C15: the result of a refreshSession() call is discarded when the result
\* of a call that began after it has already been applied: the exposed
\* session does not change.
C15_OvertakenRefreshDiscarded ==
    [][\A c \in CallIds :
          (/\ mounted
           /\ calls[c].overtaken
           /\ RefreshSucceeds(c))
          => session' = session]_vars

\* C16: at most one refresh request to the credential store is in flight.
C16_OneRefreshInFlight ==
    Cardinality({c \in CallIds : calls[c].phase \in {"refreshing", "settled"}})
        <= 1

\* C19: session and user change together: user is session.user when there
\* is a session and null when there is none, after every update.
C19_UserMatchesSession ==
    user = UserOf(session)

\* the provider has loaded and exposes a session, other than the store's,
\* with its user
C19_Witness ==
    /\ mounted
    /\ ~isLoading
    /\ session = "s10"
    /\ user = "u2"
    /\ stored = "s5"
    /\ authEvents = <<>>

\* C20: a mounted provider has exactly one session-check timer and one
\* auth-change subscription, also after the effect ran again on the change
\* of isLoading; an unmounted provider has neither.
C20_OneTimerOneSubscription ==
    /\ mounted => (subs = 1 /\ timers = 1)
    /\ ~mounted => (subs = 0 /\ timers = 0)

\* the effect has run again (isLoading is false) and the provider was
\* unmounted afterwards
C20_Witness ==
    /\ ~mounted
    /\ ~isLoading
    /\ subs = 0
    /\ timers = 0

\* the refreshSession() invocations that have not returned
C21_Running == {c \in CallIds : InFlight(c)}

\* C21: when the refresh call or the fallback read of a refreshSession()
\* invocation throws, the invocation returns (it is no longer running, and
\* the others still are) and session and user are what they were before
\* the step.
C21_ThrowLeavesState ==
    [][\A c \in CallIds :
          (RefreshThrows(c) \/ FallbackRead(c, "throw"))
          => (/\ session' = session
              /\ user' = user
              /\ Cardinality({d \in CallIds : InFlight(d)'})
                    = Cardinality(C21_Running) - 1)]_vars

\* a refresh call is pending in a provider that shows a session other than
\* the one the store holds
C21_Witness ==
    \E c \in CallIds :
        /\ calls[c].phase = "refreshing"
        /\ mounted
        /\ session # NULL
        /\ user # NULL
        /\ stored # session

\* C22: when signOut() returns to a caller of a mounted provider, holders
\* see session = null and user = null.
C22_SignedOutOnReturn ==
    [][(mounted /\ SignOutReturns) => (session' = NULL /\ user' = NULL)]_vars

\* C28: when the handler was given an event while the first acquisition
\* read was in flight (the effect has run again, so a second read is in
\* flight too) and nothing else is pending, a read that resolves leaves
\* session and user as the handler set them.
C28_LateReadKeepsEventState ==
    [][\A o \in GetSessionOutcomes :
          (/\ mounted
           /\ initReads = 2
           /\ authEvents = <<>>
           /\ \A c \in CallIds : ~InFlight(c)
           /\ InitialSessionRead(o))
          => (session' = session /\ user' = user)]_vars

-----------------------------------------------------------------------------
(* Claims about the thread views, under SpecViews *)

\* the navigations the mounted view has issued
\* the navigations the view's resolution has issued (a push is the user's)
C4_OwnNavs ==
    LET Own(n) == n.by = view /\ n.kind = "replace" IN SelectSeq(navs, Own)

C4_ReplaceTo(page, project) ==
    [by |-> view, kind |-> "replace", page |-> page, project |-> project,
     thread |-> threadId]

\* C4: once the thread lookup has settled with the metadata, the view's
\* navigation is decided by the metadata alone: with a project_id p both
\* views have issued one replace to the project view of (p, threadId) and
\* ConversationPage does not show the message list; without one RedirectPage
\* has issued one replace to the conversation view of threadId and
\* ConversationPage has issued none; whether or not the messages have
\* arrived.
C4_ResolutionFollowsMetadata ==
    (view \in {"redirect", "conversation"} /\ threadQuery.status = "success")
    => IF threadQuery.project_id # NULL
       THEN /\ C4_OwnNavs = << C4_ReplaceTo("project", threadQuery.project_id) >>
            /\ view = "conversation" => Display # "list"
       ELSE IF view = "redirect"
       THEN C4_OwnNavs = << C4_ReplaceTo("conversation", NULL) >>
       ELSE C4_OwnNavs = <<>>

\* ConversationPage holds the fetched messages of a thread that has a
\* project, and has issued the replace
C4_Witness ==
    /\ view = "conversation"
    /\ threadQuery.status = "success"
    /\ threadQuery.project_id = "p1"
    /\ ~pageIsLoading
    /\ messages # <<>>
    /\ navs # <<>>

\* the records of a raw list that are not of type "status", in their order
RECURSIVE C5_Content(_)
C5_Content(l) ==
    IF l = <<>> THEN <<>>
    ELSE IF "type" \in DOMAIN Head(l) /\ Head(l).type = "status"
    THEN C5_Content(Tail(l))
    ELSE <<Head(l)>> \o C5_Content(Tail(l))

\* C5: once a fetch result has been applied, the message list is the
\* normalization of that result and of nothing else: one entry for each
\* record that is not of type "status", in the same order, with the record's
\* type, content and created_at, and no entry of type "status".
C5_ListIsNormalizedResult ==
    messagesQuery.hasData =>
        LET kept == C5_Content(messagesQuery.data) IN
        /\ Len(messages) = Len(kept)
        /\ \A i \in 1..Len(kept) :
              /\ messages[i].type # "status"
              /\ "type" \in DOMAIN kept[i] => messages[i].type = kept[i].type
              /\ "content" \in DOMAIN kept[i]
                    => messages[i].content = kept[i].content
              /\ ("created_at" \in DOMAIN kept[i]
                     /\ ToString(kept[i].created_at)
                           \notin {ToString(NULL), ToString(""), ToString(0)})
                    => messages[i].created_at = kept[i].created_at

\* the result [status, user "hi" @1, assistant "hello" @2] was applied by the
\* refetch after a send, over the list of an earlier fetch
C5_Witness ==
    /\ messagesQuery.hasData
    /\ Len(messagesQuery.data) = 3
    /\ Len(messages) = 2
    /\ messages[1].type = "user" /\ messages[1].content = "hi"
    /\ messages[1].created_at = 1
    /\ messages[2].type = "assistant" /\ messages[2].content = "hello"
    /\ messages[2].created_at = 2
    /\ sends = 1
    /\ \A i \in SendIds : send[i].phase = "idle"
    /\ alerts = 0

\* C6: the message list is ordered by created_at ascending.
C6_OrderedByCreatedAt ==
    \A i, j \in 1..Len(messages) :
        i < j => messages[i].created_at <= messages[j].created_at

\* C8: when the send dispatch fails, isSending is false again, one alert is
\* shown, the message list is left as it is, and no fetch of the messages is
\* started; the submit itself leaves the list alone, so the failed send has
\* not changed it. This is the claim as it stands, for every failed
\* dispatch, whether or not its view is still mounted.
C8_FailedSend ==
    [][\A i \in SendIds :
          /\ (send[i].phase = "dispatching" /\ send'[i].phase = "idle")
             => (/\ isSending' = FALSE
                 /\ alerts' = alerts + 1
                 /\ messages' = messages
                 /\ messagesQuery' = messagesQuery
                 /\ loadFetch' = loadFetch)
          /\ (send[i].phase = "idle" /\ send'[i].phase = "dispatching")
             => (messages' = messages /\ messagesQuery' = messagesQuery)]_vars

\* C8, as the code has it: when the send dispatch fails, one alert is shown,
\* the message list is left as it is and no fetch of the messages is
\* started, whether or not the view is still mounted; isSending is false
\* again when the view is still mounted, and is left as it was when the view
\* has been left before the failure; the submit itself leaves the list
\* alone.
C8_FailedSendInMountedView ==
    [][\A i \in SendIds :
          /\ (send[i].phase = "dispatching" /\ send'[i].phase = "idle")
             => (/\ view = "conversation" => isSending' = FALSE
                 /\ view # "conversation" => isSending' = isSending
                 /\ alerts' = alerts + 1
                 /\ messages' = messages
                 /\ messagesQuery' = messagesQuery
                 /\ loadFetch' = loadFetch)
          /\ (send[i].phase = "idle" /\ send'[i].phase = "dispatching")
             => (messages' = messages /\ messagesQuery' = messagesQuery)]_vars

\* a send has failed in a mounted view, over a list that is not empty
C8_Witness ==
    /\ view = "conversation"
    /\ alerts = 1
    /\ sends = 1
    /\ \A i \in SendIds : send[i].phase = "idle"
    /\ ~isSending
    /\ messages # <<>>

\* C9: once the thread lookup has failed, the view has issued the navigation
\* to the dashboard.
C9_LookupFailureRoutesToDashboard ==
    (view \in {"redirect", "conversation"} /\ threadQuery.status = "error")
    => \E i \in 1..Len(navs) : navs[i].by = view /\ navs[i].page = "dashboard"

\* C23: while the thread lookup is pending (no data, no error) no step
\* issues a navigation, and the conversation view does not show the list.
C23_NoDecisionWhilePending ==
    /\ [](threadQuery.status = "pending" => Display # "list")
    /\ [][(threadQuery.status = "pending" /\ threadQuery'.status = "pending")
            => navs' = navs]_vars

\* a conversation view whose messages have been applied while its lookup is
\* still pending
C23_Witness ==
    /\ view = "conversation"
    /\ threadQuery.status = "pending"
    /\ ~pageIsLoading
    /\ messages # <<>>
    /\ navs = <<>>
    /\ Display = "skeleton"

\* C24: after a send dispatch has failed, the composed-input field holds the
\* text that was submitted.
C24_FailedSendKeepsInput ==
    [][\A i \in SendIds : SendFails(i) => newMessage' = send[i].prompt]_vars

\* C25: isSending is true from an accepted submit until its dispatch has
\* settled and, when the dispatch succeeded, until its re-fetch has settled.
C25_SendingWhileSendRuns ==
    (view = "conversation"
        /\ \E i \in SendIds : send[i].phase \in {"dispatching", "refetching"})
    => isSending

\* C26: a submit leaves the message list as it is; the list changes only in
\* a step that applies a fetch result, and then has one entry for each
\* record of that result that is not of type "status"; a send starts its
\* re-fetch only from its dispatch, when the dispatch resolved without an
\* alert, and a send that has left its re-fetch does not start another.
C26_NoOptimisticEntry ==
    [][/\ SubmitMessage => messages' = messages
       /\ messages' # messages
             => (/\ \E raw \in ServerHistories :
                       \/ LoadFetchSucceeds(raw)
                       \/ \E i \in SendIds : SendRefetchSucceeds(i, raw)
                 /\ messagesQuery'.hasData
                 /\ Len(messages') = Len(C5_Content(messagesQuery'.data)))
       /\ \A i \in SendIds :
             /\ (send[i].phase \in {"idle", "dispatching"}
                    /\ send'[i].phase \notin {"idle", "dispatching"})
                   => (/\ send[i].phase = "dispatching"
                       /\ send'[i].phase = "refetching"
                       /\ i <= sends
                       /\ alerts' = alerts)
             /\ (send[i].phase \notin {"idle", "dispatching"}
                    /\ send'[i].phase # send[i].phase)
                   => (/\ send'[i].phase \in {"applied", "resumed", "idle"}
                       /\ send[i].phase \in {"applied", "resumed"}
                             => send'[i].phase = "idle"
                       /\ sends' = sends)]_vars

\* a send is waiting for its re-fetch over a list that an earlier fetch gave
C26_Witness ==
    /\ view = "conversation"
    /\ sends = 1
    /\ send[1].phase = "refetching"
    /\ isSending
    /\ newMessage = <<>>
    /\ Len(messages) = 2
    /\ messagesQuery.hasData

\* C12: at most one send dispatch (a handleSubmitMessage call waiting for
\* initiateAgent) is in flight in a conversation view, whatever the order of
\* the submits and the renders.
C12_OneDispatchInFlight ==
    Cardinality({i \in SendIds : send[i].phase = "dispatching"}) <= 1

-----------------------------------------------------------------------------
(* Claims about a view whose threadId changes, under SpecThreads *)

\* C18: every entry of the list a conversation view displays belongs to the
\* thread the view is bound to.
C18_VisibleListOfCurrentThread ==
    (view = "conversation" /\ Display = "list")
    => \A k \in 1..Len(messages) : messages[k].thread_id = threadId

-----------------------------------------------------------------------------
(* Claims about the normalization, under SpecNormalize *)

\* C7: a normalized list is left as it is by a further normalization, at
\* any later instant.
C7_NormalizeIdempotent ==
    passes >= 1 => Normalize(unified, threadId, clock) = unified

\* a list with a status record and a record without properties was
\* normalized, and normalized again later
C7_Witness ==
    /\ passes = 2
    /\ clock > 3
    /\ Len(rawList) = 2
    /\ Len(unified) = 1
    /\ \E i \in 1..Len(rawList) : DOMAIN rawList[i] = {}
    /\ \E i \in 1..Len(rawList) :
          "type" \in DOMAIN rawList[i] /\ rawList[i].type = "status"

\* the record has no property f, or has it as null, '' or 0
C27_Lacks(r, f) ==
    \/ f \notin DOMAIN r
    \/ ToString(r[f]) \in {ToString(NULL), ToString(""), ToString(0)}

\* C27: the normalization of a raw list gives one entry for each record that
\* is not of type "status", in order; where the record lacks message_id the
\* entry's is null, where it lacks content the entry's is '', where it lacks
\* metadata the entry's is '{}' (the empty object as JSON text), where it
\* lacks created_at or updated_at the entry's is the current instant; and
\* a property the record has with a value is the entry's.
C27_MissingFieldsDefaulted ==
    [][NormalizeRaw =>
         LET kept == C5_Content(rawList) IN
         /\ Len(unified') = Len(kept)
         /\ \A i \in 1..Len(kept) :
               LET r == kept[i]
                   e == unified'[i] IN
               /\ C27_Lacks(r, "message_id") => e.message_id = NULL
               /\ C27_Lacks(r, "content") => e.content = ""
               /\ C27_Lacks(r, "metadata") => e.metadata = "{}"
               /\ C27_Lacks(r, "created_at") => e.created_at = clock
               /\ C27_Lacks(r, "updated_at") => e.updated_at = clock
               /\ \A f \in {"message_id", "thread_id", "type", "content",
                            "metadata", "created_at", "updated_at"} :
                     ~C27_Lacks(r, f) => e[f] = r[f]
               /\ "is_llm_message" \in DOMAIN r
                     => e.is_llm_message = r.is_llm_message
               /\ e.type # "status"]_vars

\* a list of a record without properties and a record with all of them was
\* normalized: the first entry holds the defaults, the second the record
C27_Witness ==
    /\ passes = 1
    /\ Len(rawList) = 2
    /\ DOMAIN rawList[1] = {}
    /\ Len(unified) = 2
    /\ unified[1].message_id = NULL
    /\ unified[1].content = ""
    /\ unified[1].metadata = "{}"
    /\ unified[1].created_at = clock
    /\ unified[2].message_id = "m1"
    /\ unified[2].content = "hi"
    /\ unified[2].created_at = 1
    /\ rawList[2].updated_at = 0
    /\ unified[2].updated_at = clock

====
